---- MODULE Spec2Model ----
(***************************************************************************)
(* electron2pdf: argument parsing, option merging, the per-job render /    *)
(* TOC fixed-point / merge / write pipeline, and the batch driver of       *)
(* src/bin/electron2pdf.js.                                                *)
(***************************************************************************)
EXTENDS Integers, Sequences, FiniteSets, TLC

(* ------------------------------ bounds --------------------------------- *)
\* largest page count the renderer reports for one input
MaxPages == 2
\* largest page count the renderer reports for a rendered TOC
MaxTocPages == 2
\* longest control stream read in batch mode
MaxLines == 2

(* ------------------------- program constants --------------------------- *)
TocIterationsOneMore == 3 + 1

TocIterations == 3
FirstTocHypothesis == 1
DefaultJavascriptDelayMs == 200

(* ------------------------------ values --------------------------------- *)
Undefined == "undefined"
NoExit == -1
NaN == -2

Range(s) == {s[i] : i \in 1..Len(s)}

\* tokens of the modelled command lines that begin with '-'
DashTokens ==
  {"-h", "--help", "--read-args-from-stdin", "--title", "-O", "--orientation",
   "-s", "--page-size", "--javascript-delay", "--xsl-style-sheet",
   "--custom-header", "--cookie", "--allow", "--bypass-proxy-for", "--post",
   "--post-file", "--run-script", "--replace", "--bogus"}

StartsWithDash(a) == a \in DashTokens

\* Number(token) for the tokens of the modelled command lines
ToNumber(tok) ==
  CASE tok = "500" -> 500
    [] tok = "0" -> 0
    [] OTHER -> NaN

\* tokens that carry a URI scheme
SchemeTokens == {"http://h/c"}

normalizeInputToUrl(input) ==
  IF input \in SchemeTokens THEN <<input>> ELSE <<"file://", "cwd", input>>

(* ------------------------------ options -------------------------------- *)
ListKeys ==
  {"customHeaders", "cookies", "allow", "bypassProxyFor", "post", "postFile",
   "runScript", "replace"}

DefaultOptions ==
  [customHeaders |-> <<>>, cookies |-> <<>>, allow |-> <<>>,
   bypassProxyFor |-> <<>>, post |-> <<>>, postFile |-> <<>>,
   runScript |-> <<>>, replace |-> <<>>,
   title |-> Undefined, javascriptDelayMs |-> DefaultJavascriptDelayMs,
   toc |-> FALSE, xslStyleSheet |-> Undefined, readArgsFromStdin |-> FALSE,
   orientation |-> "Portrait", pageSize |-> Undefined]

\* { ...base, ...override }: every own key of override wins, set or not
SpreadDropsBase(base, override) == override

Spread(base, override) == override @@ base

ConcatMissesBase(base, override, k) == override[k]

ConcatList(base, override, k) == base[k] \o override[k]

mergeOptions(base, override) ==
  LET merged == Spread(base, override)
  IN  [k \in DOMAIN merged |->
         IF k \in ListKeys THEN ConcatList(base, override, k) ELSE merged[k]]

(* --------------------------- parseArgsArray ---------------------------- *)
ExitWith(code) ==
  [exit |-> code, inputs |-> <<>>, outputFile |-> Undefined,
   options |-> DefaultOptions]

Pair(n, v) == [name |-> n, value |-> v]

RECURSIVE ParseLoop(_, _, _, _)
ParseLoop(args, i, options, positionals) ==
  IF i > Len(args)
  THEN [exit |-> NoExit, options |-> options, positionals |-> positionals]
  ELSE
    LET a == args[i]
        one == i + 1 <= Len(args)
        two == i + 2 <= Len(args)
        bad == [exit |-> 2, options |-> options, positionals |-> positionals]
        scalar(k) ==
          IF one THEN ParseLoop(args, i + 2, [options EXCEPT ![k] = args[i + 1]],
                                positionals)
          ELSE bad
        push1(k) ==
          IF one THEN ParseLoop(args, i + 2,
                                [options EXCEPT ![k] = Append(@, args[i + 1])],
                                positionals)
          ELSE bad
        push2(k) ==
          IF two THEN ParseLoop(args, i + 3,
                                [options EXCEPT
                                   ![k] = Append(@, Pair(args[i + 1], args[i + 2]))],
                                positionals)
          ELSE bad
    IN
    IF ~StartsWithDash(a)
      THEN ParseLoop(args, i + 1, options, Append(positionals, a))
    ELSE IF a \in {"-h", "--help"}
      THEN [exit |-> 0, options |-> options, positionals |-> positionals]
    ELSE IF a = "--read-args-from-stdin"
      THEN ParseLoop(args, i + 1, [options EXCEPT !.readArgsFromStdin = TRUE],
                     positionals)
    ELSE IF a = "--title" THEN scalar("title")
    ELSE IF a \in {"-O", "--orientation"}
      THEN IF ~one THEN bad
           ELSE IF args[i + 1] \notin {"Portrait", "Landscape"} THEN bad
           ELSE scalar("orientation")
    ELSE IF a \in {"-s", "--page-size"} THEN scalar("pageSize")
    ELSE IF a = "--javascript-delay"
      THEN IF ~one THEN bad
           ELSE IF ToNumber(args[i + 1]) = NaN \/ ToNumber(args[i + 1]) < 0
             THEN bad
           ELSE ParseLoop(args, i + 2,
                          [options EXCEPT
                             !.javascriptDelayMs = ToNumber(args[i + 1])],
                          positionals)
    ELSE IF a = "--xsl-style-sheet" THEN scalar("xslStyleSheet")
    ELSE IF a = "--custom-header" THEN push2("customHeaders")
    ELSE IF a = "--cookie" THEN push2("cookies")
    ELSE IF a = "--allow" THEN push1("allow")
    ELSE IF a = "--bypass-proxy-for" THEN push1("bypassProxyFor")
    ELSE IF a = "--post" THEN push2("post")
    ELSE IF a = "--post-file" THEN push2("postFile")
    ELSE IF a = "--run-script" THEN push1("runScript")
    ELSE IF a = "--replace" THEN push2("replace")
    ELSE bad

InputsOfKeepsToc(raw) == raw

\* the positionals before the last one, with every "toc" removed
RECURSIVE InputsOf(_)
InputsOf(raw) ==
  IF raw = <<>> THEN <<>>
  ELSE IF Head(raw) = "toc" THEN InputsOf(Tail(raw))
  ELSE <<Head(raw)>> \o InputsOf(Tail(raw))

parseArgsArray(args, allowNoPositionals) ==
  IF Len(args) = 0 \/ "-h" \in Range(args) \/ "--help" \in Range(args)
  THEN ExitWith(IF Len(args) = 0 THEN 2 ELSE 0)
  ELSE
    LET r == ParseLoop(args, 1, DefaultOptions, <<>>)
        positionals == r.positionals
    IN
    IF r.exit # NoExit THEN ExitWith(r.exit)
    ELSE IF Len(positionals) < 2 /\ ~allowNoPositionals THEN ExitWith(2)
    ELSE IF Len(positionals) = 0
      THEN [exit |-> NoExit, inputs |-> <<>>, outputFile |-> Undefined,
            options |-> r.options]
    ELSE
      LET outputFile == positionals[Len(positionals)]
          inputsRaw == SubSeq(positionals, 1, Len(positionals) - 1)
          inputs == InputsOf(inputsRaw)
          opts == [r.options EXCEPT !.toc = (@ \/ "toc" \in Range(inputsRaw))]
      IN
      IF Len(inputs) = 0 /\ ~allowNoPositionals THEN ExitWith(2)
      ELSE [exit |-> NoExit, inputs |-> inputs, outputFile |-> outputFile,
            options |-> opts]

(* ------------------------------ buffers -------------------------------- *)
\* a PDF byte buffer: its pages in order, its title metadata, and who
\* serialised it (the browser's printToPDF or pdf-lib's save)
Buffer(pages, title, enc) == [pages |-> pages, title |-> title, enc |-> enc]

NullBuffer == Buffer(<<>>, Undefined, "null")

InPage(i, k) == [src |-> "in", idx |-> i, k |-> k, listed |-> <<>>]

TocPage(r, k, listed) == [src |-> "toc", idx |-> r, k |-> k, listed |-> listed]

\* printToPDF of input i laid out on p pages
RenderedInput(i, p) == Buffer([k \in 1..p |-> InPage(i, k)], Undefined, "chromium")

\* printToPDF of the TOC HTML of render r, laid out on p pages; every page
\* belongs to the TOC that lists the given page numbers
RenderedToc(r, p, listed) ==
  Buffer([k \in 1..p |-> TocPage(r, k, listed)], Undefined, "chromium")

getPageCountOneMore(buf) == Len(buf.pages) + 1

\* PDFDocument.load(buf).getPageCount()
getPageCount(buf) == Len(buf.pages)

RECURSIVE CopyAllButLast(_)
CopyAllButLast(buffers) ==
  IF Len(buffers) <= 1 THEN <<>>
  ELSE Head(buffers).pages \o CopyAllButLast(Tail(buffers))

RECURSIVE CopyAll(_)
CopyAll(buffers) ==
  IF buffers = <<>> THEN <<>>
  ELSE Head(buffers).pages \o CopyAll(Tail(buffers))

RECURSIVE CopyAllReversed(_)
CopyAllReversed(buffers) ==
  IF buffers = <<>> THEN <<>>
  ELSE CopyAllReversed(Tail(buffers)) \o Head(buffers).pages

mergePdfBuffersTocLast(buffers) == Buffer(CopyAllReversed(buffers), Undefined, "pdflib")

mergePdfBuffers(buffers) == Buffer(CopyAll(buffers), Undefined, "pdflib")

setTitleOnEmptyDocument(buf, title) == Buffer(<<>>, title, "pdflib")

setTitle(buf, title) == Buffer(buf.pages, title, "pdflib")

\* truthiness of an option that holds a string or undefined
Truthy(v) == v \notin {Undefined, ""}

(* ------------------------------ TOC items ------------------------------ *)
RECURSIVE ItemsFromOnePageEach(_, _, _, _)
ItemsFromOnePageEach(inps, counts, idx, pageCursor) ==
  IF idx > Len(inps) THEN <<>>
  ELSE <<[title |-> inps[idx], link |-> normalizeInputToUrl(inps[idx]),
          page |-> pageCursor]>>
       \o ItemsFromOnePageEach(inps, counts, idx + 1, pageCursor + 1)

\* inputs.map(...): each item's page is the cursor, which then moves on by
\* the input's page count
RECURSIVE ItemsFrom(_, _, _, _)
ItemsFrom(inps, counts, idx, pageCursor) ==
  IF idx > Len(inps) THEN <<>>
  ELSE <<[title |-> inps[idx], link |-> normalizeInputToUrl(inps[idx]),
          page |-> pageCursor]>>
       \o ItemsFrom(inps, counts, idx + 1, pageCursor + counts[idx])

TocItemsNoOffset(inps, counts, tocCount) == ItemsFrom(inps, counts, 1, 1)

TocItems(inps, counts, tocCount) == ItemsFrom(inps, counts, 1, tocCount + 1)

ListedPages(its) == [i \in 1..Len(its) |-> its[i].page]

FixedPointNever(newCount, tocCount) == FALSE

FixedPoint(newCount, tocCount) == newCount = tocCount

NextHypothesisKept(newCount, tocCount) == tocCount

\* tocPageCount = newCount: the hypothesis of the next iteration
NextHypothesis(newCount, tocCount) == newCount

(* ------------------------------- inputs -------------------------------- *)
\* the command lines the process is started with
BaseArgvs ==
  {<<"a.html", "out.pdf">>,
   <<"toc", "a.html", "b.html", "out.pdf">>,
   <<"--title", "T1", "toc", "http://h/c", "out.pdf">>,
   <<"out.pdf">>,
   <<"toc", "out.pdf">>,
   <<"--title", "T1">>,
   <<>>,
   <<"--help">>,
   <<"--bogus", "a.html", "out.pdf">>,
   <<"--title", "T1", "--custom-header", "H", "v", "--run-script", "s.js",
     "--allow", "p", "--read-args-from-stdin">>}

\* the lines of a control stream, held as tokenizeArgLine leaves them;
\* the empty list is a blank line
BatchLines ==
  {<<>>,
   <<"toc", "a.html", "o2.pdf">>,
   <<"--custom-header", "H2", "v2", "--run-script", "t.js", "--cookie", "c",
     "1", "-O", "Landscape", "a.html", "o1.pdf">>,
   <<"--bogus", "a.html", "o3.pdf">>}

OutputPaths == {"out.pdf", "o1.pdf", "o2.pdf", "o3.pdf"}

Streams == UNION {[1..n -> BatchLines] : n \in 0..MaxLines}

(* ------------------------------- state --------------------------------- *)
VARIABLES
  argv,              \* process.argv.slice(2)
  stream,            \* the lines standard input will deliver
  pc,                \* position in the main routine
  options,           \* base options
  inputs,            \* base inputs
  outputFile,        \* base output path
  lineNo,            \* number of stream lines consumed by the batch loop
  job,               \* inputs, output path and options of the running job
  pdfBuffers,        \* rendered input buffers of the running job
  pageCounts,        \* their page counts
  mergedPagesBuffer,
  tocPdfBuffer,
  tocPageCount,
  iter,
  items,             \* OutlineItems of the current TOC iteration
  finalBuffer,
  outFiles,          \* the filesystem: output path -> content
  err,               \* the exception in flight
  exitCode,          \* the code process.exit was called with
  trace,             \* steps the running job has completed, in order
  tocLog,            \* hypothesis and rendered page count of each TOC render
  lineLog,           \* outcome of every non-blank line handled so far
  rendered,          \* URLs the running job has handed to the renderer, in order
  openWindows,       \* BrowserWindows created and not yet closed
  launcherCode,      \* the code the launcher process exits with
  text,              \* argument of the string helper under study
  escaped,           \* result of escapeXmlAttr(text)
  inches,            \* result of unitRealToInches(text)
  sef,               \* the compiled-stylesheet files of the cache directory
  cproc,             \* the processes asking for compiled stylesheets
  compiles,          \* compiler runs of each process for each key
  tokens,            \* result of tokenizeArgLine for the line in text
  rnd                \* the inside of one renderSingleToPdfBuffer call

vars ==
  <<argv, stream, pc, options, inputs, outputFile, lineNo, job, pdfBuffers,
    pageCounts, mergedPagesBuffer, tocPdfBuffer, tocPageCount, iter, items,
    finalBuffer, outFiles, err, exitCode, trace, tocLog, lineLog, rendered,
    openWindows, launcherCode, text, escaped, inches, sef, cproc, compiles,
    tokens, rnd>>

Absent == Buffer(<<>>, Undefined, "absent")
Truncated == Buffer(<<>>, Undefined, "truncated")

NoErr == [name |-> "none", exitCode |-> NoExit, at |-> "none"]
ExitError(code) == [name |-> "ExitError", exitCode |-> code, at |-> "none"]
Error(step) == [name |-> "Error", exitCode |-> NoExit, at |-> step]

NoJob == [inputs |-> <<>>, outputFile |-> Undefined, options |-> DefaultOptions,
          line |-> 0]

jobVars ==
  <<pdfBuffers, pageCounts, mergedPagesBuffer, tocPdfBuffer, tocPageCount,
    iter, items, finalBuffer, trace, tocLog, rendered>>

baseVars == <<argv, stream, options, inputs, outputFile>>

procVars == <<openWindows, launcherCode>>

cacheVars == <<sef, cproc, compiles>>

pureVars == <<text, escaped, inches, cacheVars, tokens, rnd>>

\* no line has been tokenised
NotTokenized == <<<<"unset">>>>

\* the content hashes of two stylesheets
Keys == {"k1", "k2"}

\* no process is asking for a compiled stylesheet
CacheIdle ==
  /\ sef = [k \in Keys |-> "absent"]
  /\ cproc = <<>>
  /\ compiles = <<>>

Unset == <<"unset">>

\* a result of the length conversion: null, or the number num / den
Null == [null |-> TRUE, num |-> 0, den |-> 1]

NotConverted == [null |-> TRUE, num |-> 0, den |-> 0]

\* the main routine's variables and the helpers' results at the start
InitMain(pc0) ==
  /\ pc = pc0
  /\ options = DefaultOptions
  /\ inputs = <<>>
  /\ outputFile = Undefined
  /\ lineNo = 0
  /\ job = NoJob
  /\ pdfBuffers = <<>>
  /\ pageCounts = <<>>
  /\ mergedPagesBuffer = NullBuffer
  /\ tocPdfBuffer = NullBuffer
  /\ tocPageCount = FirstTocHypothesis
  /\ iter = 0
  /\ items = <<>>
  /\ finalBuffer = NullBuffer
  /\ outFiles = [p \in OutputPaths |-> Absent]
  /\ err = NoErr
  /\ exitCode = NoExit
  /\ trace = <<>>
  /\ tocLog = <<>>
  /\ lineLog = <<>>
  /\ rendered = <<>>
  /\ openWindows = 0
  /\ launcherCode = NoExit
  /\ escaped = Unset
  /\ inches = NotConverted

\* everything but the command line, the stream and the helper's argument
\* a render whose steps are not followed one by one
RenderOf(stopSlowScripts, windowStatus) ==
  [pc |-> "none", stopSlowScripts |-> stopSlowScripts,
   windowStatus |-> windowStatus, first |-> "none", idle |-> "pending",
   idleWon |-> FALSE, directives |-> 0, warnings |-> 0,
   elapsed |-> 0, status |-> "", rejected |-> "none"]

RendererIdle == rnd = RenderOf(FALSE, Undefined)

InitRest(pc0) ==
  InitMain(pc0) /\ CacheIdle /\ tokens = NotTokenized /\ RendererIdle

Init ==
  /\ argv \in BaseArgvs
  /\ stream \in (IF "--read-args-from-stdin" \in Range(argv) THEN Streams ELSE {<<>>})
  /\ text = <<>>
  /\ InitRest("launch")

\* a job begins: fresh per-job locals
StartJob(j) ==
  /\ job' = j
  /\ pdfBuffers' = <<>>
  /\ pageCounts' = <<>>
  /\ mergedPagesBuffer' = NullBuffer
  /\ tocPdfBuffer' = NullBuffer
  /\ tocPageCount' = FirstTocHypothesis
  /\ iter' = 0
  /\ items' = <<>>
  /\ finalBuffer' = NullBuffer
  /\ trace' = <<>>
  /\ tocLog' = <<>>
  /\ rendered' = <<>>

(* ------------------------------ actions -------------------------------- *)
\* the launcher's own check of its arguments (usage, exit 2 without
\* arguments, exit 0 for help); the value NoExit means it spawns Electron
launcherUsageExit(args) ==
  IF Len(args) = 0 \/ "-h" \in Range(args) \/ "--help" \in Range(args)
  THEN (IF Len(args) = 0 THEN 2 ELSE 0)
  ELSE NoExit

\* child.on('exit', (code, signal) => ...): the launcher's exit code
childExit(code, signal) ==
  IF signal THEN 1 ELSE IF code = NoExit THEN 1 ELSE code

\* the launcher starts: usage and exit, or spawn of the main program with
\* the same arguments (the Electron dependency is installed)
Launch ==
  /\ pc = "launch"
  /\ IF launcherUsageExit(argv) # NoExit
     THEN /\ launcherCode' = launcherUsageExit(argv)
          /\ pc' = "done"
     ELSE /\ pc' = "start"
          /\ UNCHANGED launcherCode
  /\ UNCHANGED <<baseVars, lineNo, job, jobVars, outFiles, err, exitCode,
                 lineLog, openWindows, pureVars>>

\* the main program has called process.exit: the launcher's exit handler
\* passes the code on
LauncherExit ==
  /\ pc = "exited"
  /\ launcherCode' = childExit(exitCode, FALSE)
  /\ pc' = "done"
  /\ UNCHANGED <<baseVars, lineNo, job, jobVars, outFiles, err, exitCode,
                 lineLog, openWindows, pureVars>>

\* the ExitError of the base parse rejects the promise of the main routine
\* with no handler installed: the runtime either reports the rejection and
\* keeps the process alive, or ends it as for an uncaught exception, code 1
UnhandledRejection ==
  /\ pc = "unhandled"
  /\ \/ /\ pc' = "alive"
        /\ UNCHANGED exitCode
     \/ /\ pc' = "exited"
        /\ exitCode' = 1
  /\ UNCHANGED <<baseVars, lineNo, job, jobVars, outFiles, err, lineLog,
                 procVars, pureVars>>

\* parseArgsArray(process.argv.slice(2), {allowNoPositionals: true}), made
\* before the try block: an ExitError raised here is caught by nothing
ParseBase ==
  /\ pc = "start"
  /\ LET r == parseArgsArray(argv, TRUE)
     IN  IF r.exit # NoExit
         THEN /\ err' = ExitError(r.exit)
              /\ pc' = "unhandled"
              /\ UNCHANGED <<options, inputs, outputFile>>
         ELSE /\ options' = r.options
              /\ inputs' = r.inputs
              /\ outputFile' = r.outputFile
              /\ pc' = "ready"
              /\ err' = NoErr
  /\ UNCHANGED <<argv, stream, lineNo, job, jobVars, outFiles, exitCode, lineLog>>
  /\ UNCHANGED <<procVars, pureVars>>

\* await app.whenReady(), then the branch on options.readArgsFromStdin
AppReady ==
  /\ pc = "ready"
  /\ pc' = IF options.readArgsFromStdin THEN "readline" ELSE "checkargs"
  /\ UNCHANGED <<baseVars, lineNo, job, jobVars, outFiles, err, exitCode, lineLog>>
  /\ UNCHANGED <<procVars, pureVars>>

MissingOutputOnly(ins, out) == out = Undefined

\* !outputFile || !inputs || inputs.length === 0
MissingPositionals(ins, out) == out = Undefined \/ Len(ins) = 0

\* single invocation: the positionals check, then the job's locals
CheckArgs ==
  /\ pc = "checkargs"
  /\ IF MissingPositionals(inputs, outputFile)
     THEN /\ err' = ExitError(2)
          /\ pc' = "catch"
          /\ UNCHANGED <<job, jobVars>>
     ELSE /\ StartJob([inputs |-> inputs, outputFile |-> outputFile,
                       options |-> options, line |-> 0])
          /\ pc' = "render"
          /\ err' = NoErr
  /\ UNCHANGED <<baseVars, lineNo, outFiles, exitCode, lineLog>>
  /\ UNCHANGED <<procVars, pureVars>>

AtLoopHeadOrLoading(p) == p \in {"readline", "load"}

\* for await (const line of rl): the next line is taken when the body of
\* the loop has run to its end for the line before
AtLoopHead(p) == p = "readline"

\* batch: the stream has ended; process.exit(0)
BatchEnd ==
  /\ AtLoopHead(pc)
  /\ lineNo = Len(stream)
  /\ exitCode' = 0
  /\ pc' = "exited"
  /\ UNCHANGED <<baseVars, lineNo, job, jobVars, outFiles, err, lineLog>>
  /\ UNCHANGED <<procVars, pureVars>>

\* batch: a line that is empty after trim is skipped
SkipBlank ==
  /\ AtLoopHead(pc)
  /\ lineNo < Len(stream)
  /\ stream[lineNo + 1] = <<>>
  /\ lineNo' = lineNo + 1
  /\ UNCHANGED <<baseVars, pc, job, jobVars, outFiles, err, exitCode, lineLog>>
  /\ UNCHANGED <<procVars, pureVars>>

\* batch: the line's parse raises ExitError; the loop calls process.exit
ParseLineExits ==
  /\ AtLoopHead(pc)
  /\ lineNo < Len(stream)
  /\ stream[lineNo + 1] # <<>>
  /\ LET parsed == parseArgsArray(stream[lineNo + 1], FALSE)
     IN  /\ parsed.exit # NoExit
         /\ exitCode' = parsed.exit
         /\ lineLog' = Append(lineLog, [line |-> lineNo + 1, outcome |-> "usage"])
  /\ lineNo' = lineNo + 1
  /\ pc' = "exited"
  /\ UNCHANGED <<baseVars, job, jobVars, outFiles, err>>
  /\ UNCHANGED <<procVars, pureVars>>

BaseBecomesMerged(base, merged) == merged

\* the base options after mergeOptions(options, parsed.options): merged is
\* a new object with new lists, options itself is assigned nowhere
BaseAfterMerge(base, merged) == base

\* batch: the line parses; its options are merged onto the base options
ParseLine ==
  /\ AtLoopHead(pc)
  /\ lineNo < Len(stream)
  /\ stream[lineNo + 1] # <<>>
  /\ LET parsed == parseArgsArray(stream[lineNo + 1], FALSE)
         mergedOptions == mergeOptions(options, parsed.options)
     IN  /\ parsed.exit = NoExit
         /\ IF MissingPositionals(parsed.inputs, parsed.outputFile)
            THEN /\ err' = ExitError(2)
                 /\ pc' = "catch"
                 /\ UNCHANGED <<job, jobVars>>
            ELSE /\ StartJob([inputs |-> parsed.inputs,
                              outputFile |-> parsed.outputFile,
                              options |-> mergedOptions, line |-> lineNo + 1])
                 /\ pc' = "render"
                 /\ err' = NoErr
         /\ options' = BaseAfterMerge(options, mergedOptions)
  /\ lineNo' = lineNo + 1
  /\ UNCHANGED <<argv, stream, inputs, outputFile, outFiles, exitCode, lineLog>>
  /\ UNCHANGED <<procVars, pureVars>>

\* what the renderer is given to load for an input
InputUrl(input) ==
  [url |-> normalizeInputToUrl(input), html |-> [root |-> "", items |-> <<>>]]

winNeverClosed(n) == n

\* new BrowserWindow(...)
winOpen(n) == n + 1

\* win.close()
winClose(n) == n - 1

\* renderSingleToPdfBuffer is called for the next input: a window is
\* created and the input's URL is loaded in it
RenderInputStart ==
  /\ pc = "render"
  /\ Len(pdfBuffers) < Len(job.inputs)
  /\ openWindows' = winOpen(openWindows)
  /\ rendered' = Append(rendered, InputUrl(job.inputs[Len(pdfBuffers) + 1]))
  /\ pc' = "rendering"
  /\ UNCHANGED <<baseVars, lineNo, job, pdfBuffers, pageCounts,
                 mergedPagesBuffer, tocPdfBuffer, tocPageCount, iter, items,
                 finalBuffer, outFiles, err, exitCode, trace, tocLog, lineLog,
                 launcherCode, pureVars>>

\* printToPDF, win.close(), and the buffer is returned and pushed
RenderInput ==
  /\ pc = "rendering"
  /\ \E p \in 1..MaxPages :
       pdfBuffers' = Append(pdfBuffers, RenderedInput(Len(pdfBuffers) + 1, p))
  /\ openWindows' = winClose(openWindows)
  /\ trace' = Append(trace, "render")
  /\ pc' = "load"
  /\ UNCHANGED <<baseVars, lineNo, job, pageCounts, mergedPagesBuffer,
                 tocPdfBuffer, tocPageCount, iter, items, finalBuffer, outFiles,
                 err, exitCode, tocLog, lineLog>>
  /\ UNCHANGED <<launcherCode, rendered, pureVars>>

\* PDFDocument.load(buf), pageCounts.push(doc.getPageCount())
LoadPageCount ==
  /\ pc = "load"
  /\ pageCounts' = Append(pageCounts, getPageCount(pdfBuffers[Len(pdfBuffers)]))
  /\ trace' = Append(trace, "load")
  /\ pc' = IF Len(pdfBuffers) < Len(job.inputs) THEN "render" ELSE "merge"
  /\ UNCHANGED <<baseVars, lineNo, job, pdfBuffers, mergedPagesBuffer,
                 tocPdfBuffer, tocPageCount, iter, items, finalBuffer, outFiles,
                 err, exitCode, tocLog, lineLog>>
  /\ UNCHANGED <<procVars, rendered, pureVars>>

MergedContentAlwaysMerges(buffers) == mergePdfBuffers(buffers)

\* pdfBuffers.length === 1 ? pdfBuffers[0] : await mergePdfBuffers(pdfBuffers)
MergedContent(buffers) ==
  IF Len(buffers) = 1 THEN buffers[1] ELSE mergePdfBuffers(buffers)

\* one buffer is taken as it is, several are merged; then the TOC branch
MergeInputs ==
  /\ pc = "merge"
  /\ mergedPagesBuffer' = MergedContent(pdfBuffers)
  /\ trace' = Append(trace, "merge")
  /\ pc' = IF job.options.toc THEN "tocxsl" ELSE "title"
  /\ tocPdfBuffer' = NullBuffer
  /\ tocPageCount' = FirstTocHypothesis
  /\ iter' = 0
  /\ UNCHANGED <<baseVars, lineNo, job, pdfBuffers, pageCounts, items,
                 finalBuffer, outFiles, err, exitCode, tocLog, lineLog>>
  /\ UNCHANGED <<procVars, rendered, pureVars>>

\* a TOC iteration: the items, buildOutlineXml, tocHtmlFromOutlineXml
TocTransform ==
  /\ pc = "tocxsl"
  /\ items' = TocItems(job.inputs, pageCounts, tocPageCount)
  /\ trace' = Append(trace, "tocxsl")
  /\ pc' = "tocrender"
  /\ UNCHANGED <<baseVars, lineNo, job, pdfBuffers, pageCounts,
                 mergedPagesBuffer, tocPdfBuffer, tocPageCount, iter,
                 finalBuffer, outFiles, err, exitCode, tocLog, lineLog>>
  /\ UNCHANGED <<procVars, rendered, pureVars>>

\* an <outline:item .../> element written for an item of the list
OutlineChild(it) ==
  [name |-> "outline:item", title |-> it.title, page |-> it.page,
   link |-> it.link]

buildOutlineXmlReversed(its) ==
  [root |-> "outline:outline",
   items |-> <<[name |-> "outline:item",
                children |-> [i \in 1..Len(its) |->
                                OutlineChild(its[Len(its) + 1 - i])]]>>]

\* the document buildOutlineXml writes: the root element, one item element
\* in it, and in that one element per item of the list, in the list's order
buildOutlineXml(its) ==
  [root |-> "outline:outline",
   items |-> <<[name |-> "outline:item",
                children |-> [i \in 1..Len(its) |-> OutlineChild(its[i])]]>>]

\* the data URL of the TOC HTML, which the stylesheet makes of the outline
TocDataUrl(its) ==
  [url |-> "data:text/html;base64", html |-> buildOutlineXml(its)]

\* renderSingleToPdfBuffer is called for the TOC data URL
TocRenderStart ==
  /\ pc = "tocrender"
  /\ openWindows' = winOpen(openWindows)
  /\ rendered' = Append(rendered, TocDataUrl(items))
  /\ pc' = "tocrendering"
  /\ UNCHANGED <<baseVars, lineNo, job, pdfBuffers, pageCounts,
                 mergedPagesBuffer, tocPdfBuffer, tocPageCount, iter, items,
                 finalBuffer, outFiles, err, exitCode, trace, tocLog, lineLog,
                 launcherCode, pureVars>>

\* printToPDF of the TOC, win.close(), and the buffer is returned
TocRender ==
  /\ pc = "tocrendering"
  /\ \E p \in 1..MaxTocPages :
       /\ tocPdfBuffer' = RenderedToc(iter + 1, p, ListedPages(items))
       /\ tocLog' = Append(tocLog, [hyp |-> tocPageCount, count |-> p])
  /\ openWindows' = winClose(openWindows)
  /\ trace' = Append(trace, "tocrender")
  /\ pc' = "tocload"
  /\ UNCHANGED <<baseVars, lineNo, job, pdfBuffers, pageCounts,
                 mergedPagesBuffer, tocPageCount, iter, items, finalBuffer,
                 outFiles, err, exitCode, lineLog>>
  /\ UNCHANGED <<launcherCode, rendered, pureVars>>

\* load the TOC buffer, compare its page count, break or iterate
TocLoad ==
  /\ pc = "tocload"
  /\ LET newCount == getPageCount(tocPdfBuffer)
     IN  IF FixedPoint(newCount, tocPageCount)
         THEN /\ pc' = "tocmerge"
              /\ UNCHANGED <<tocPageCount, iter>>
         ELSE /\ tocPageCount' = NextHypothesis(newCount, tocPageCount)
              /\ iter' = iter + 1
              /\ pc' = IF iter + 1 < TocIterations THEN "tocxsl" ELSE "tocmerge"
  /\ trace' = Append(trace, "tocload")
  /\ UNCHANGED <<baseVars, lineNo, job, pdfBuffers, pageCounts,
                 mergedPagesBuffer, tocPdfBuffer, items, finalBuffer, outFiles,
                 err, exitCode, tocLog, lineLog>>
  /\ UNCHANGED <<procVars, rendered, pureVars>>

\* mergePdfBuffers([tocPdfBuffer, mergedPagesBuffer])
TocMerge ==
  /\ pc = "tocmerge"
  /\ mergedPagesBuffer' = mergePdfBuffers(<<tocPdfBuffer, mergedPagesBuffer>>)
  /\ trace' = Append(trace, "tocmerge")
  /\ pc' = "title"
  /\ UNCHANGED <<baseVars, lineNo, job, pdfBuffers, pageCounts, tocPdfBuffer,
                 tocPageCount, iter, items, finalBuffer, outFiles, err,
                 exitCode, tocLog, lineLog>>
  /\ UNCHANGED <<procVars, rendered, pureVars>>

\* the title metadata, when a title is set
SetTitle ==
  /\ pc = "title"
  /\ finalBuffer' =
       IF Truthy(job.options.title)
       THEN setTitle(mergedPagesBuffer, job.options.title)
       ELSE mergedPagesBuffer
  /\ trace' = Append(trace, "title")
  /\ pc' = "mkdir"
  /\ UNCHANGED <<baseVars, lineNo, job, pdfBuffers, pageCounts,
                 mergedPagesBuffer, tocPdfBuffer, tocPageCount, iter, items,
                 outFiles, err, exitCode, tocLog, lineLog>>
  /\ UNCHANGED <<procVars, rendered, pureVars>>

\* fs.promises.mkdir(dirname(outPath), {recursive: true})
MakeDir ==
  /\ pc = "mkdir"
  /\ trace' = Append(trace, "mkdir")
  /\ pc' = "write"
  /\ UNCHANGED <<baseVars, lineNo, job, pdfBuffers, pageCounts,
                 mergedPagesBuffer, tocPdfBuffer, tocPageCount, iter, items,
                 finalBuffer, outFiles, err, exitCode, tocLog, lineLog>>
  /\ UNCHANGED <<procVars, rendered, pureVars>>

\* fs.promises.writeFile(outPath, finalBuffer); then process.exit(0) in a
\* single invocation, the next line in batch mode
WriteOutput ==
  /\ pc = "write"
  /\ outFiles' = [outFiles EXCEPT ![job.outputFile] = finalBuffer]
  /\ trace' = Append(trace, "write")
  /\ IF job.line = 0
     THEN /\ exitCode' = 0
          /\ pc' = "exited"
          /\ UNCHANGED lineLog
     ELSE /\ lineLog' = Append(lineLog, [line |-> job.line, outcome |-> "ok"])
          /\ pc' = "readline"
          /\ UNCHANGED exitCode
  /\ UNCHANGED <<baseVars, lineNo, job, pdfBuffers, pageCounts,
                 mergedPagesBuffer, tocPdfBuffer, tocPageCount, iter, items,
                 finalBuffer, err, tocLog>>
  /\ UNCHANGED <<procVars, rendered, pureVars>>

\* the steps that await a collaborator and can reject
CanThrow ==
  \/ pc \in {"rendering", "load", "tocxsl", "tocrendering", "tocload",
             "tocmerge", "mkdir", "write"}
  \/ pc = "merge" /\ Len(pdfBuffers) # 1
  \/ pc = "title" /\ Truthy(job.options.title)

\* the step that is under way at a position of the main routine
StepAt(p) ==
  CASE p = "rendering" -> "render"
    [] p = "tocrendering" -> "tocrender"
    [] OTHER -> p

RetryStep(p) == p

\* a rejected await leaves the try block for its catch
AfterThrow(p) == "catch"

\* a step of the running job rejects; a rejected writeFile may leave a
\* truncated file behind, a rejected render its window open
Throw ==
  /\ CanThrow
  /\ err' = Error(StepAt(pc))
  /\ pc' = AfterThrow(pc)
  /\ IF pc = "write"
     THEN outFiles' \in {outFiles, [outFiles EXCEPT ![job.outputFile] = Truncated]}
     ELSE UNCHANGED outFiles
  /\ lineLog' = IF job.line = 0 THEN lineLog
                ELSE Append(lineLog, [line |-> job.line, outcome |-> "failed"])
  /\ UNCHANGED <<baseVars, lineNo, job, jobVars, exitCode>>
  /\ UNCHANGED <<procVars, pureVars>>

CatchExitsZero(e) == IF e.name = "ExitError" THEN e.exitCode ELSE 0

\* the catch block's exit code: the ExitError's code, else 1
CatchExitCode(e) == IF e.name = "ExitError" THEN e.exitCode ELSE 1

\* the catch block of the main routine
Catch ==
  /\ pc = "catch"
  /\ exitCode' = CatchExitCode(err)
  /\ pc' = "exited"
  /\ UNCHANGED <<baseVars, lineNo, job, jobVars, outFiles, err, lineLog>>
  /\ UNCHANGED <<procVars, pureVars>>



Next ==
  \/ Launch
  \/ LauncherExit
  \/ UnhandledRejection
  \/ RenderInputStart
  \/ TocRenderStart
  \/ ParseBase
  \/ AppReady
  \/ CheckArgs
  \/ BatchEnd
  \/ SkipBlank
  \/ ParseLineExits
  \/ ParseLine
  \/ RenderInput
  \/ LoadPageCount
  \/ MergeInputs
  \/ TocTransform
  \/ TocRender
  \/ TocLoad
  \/ TocMerge
  \/ SetTitle
  \/ MakeDir
  \/ WriteOutput
  \/ Throw
  \/ Catch

Spec == Init /\ [][Next]_vars

(* ----------------- the parser applied to any command line -------------- *)
MaxArgs == 4

\* tokens of a command line: the toc token, inputs, an output path, and a
\* flag that takes no value
ArgTokens == {"toc", "a.html", "b.html", "out.pdf", "--read-args-from-stdin"}

ArgLists == UNION {[1..n -> ArgTokens] : n \in 0..MaxArgs}

InitParse ==
  /\ argv \in ArgLists
  /\ stream = <<>>
  /\ text = <<>>
  /\ InitRest("start")

NextParse == ParseBase

SpecParse == InitParse /\ [][NextParse]_vars

(* ------------------------- helpers of the claims ----------------------- *)
\* the running job has written its output file
JobDone == trace # <<>> /\ trace[Len(trace)] = "write"

\* the document the finished job left at its output path
FinalDocument == outFiles[job.outputFile]

TocJob == job.options.toc

NumInputs == Len(job.inputs)

\* 1-based position of page k of input i in a document, 0 when missing
PositionOf(doc, i, k) ==
  LET hits == {n \in 1..Len(doc.pages) : doc.pages[n] = InPage(i, k)}
  IN  IF hits = {} THEN 0 ELSE CHOOSE n \in hits : \A o \in hits : n <= o

\* the page numbers printed in the TOC that opens a document
EmittedToc(doc) == doc.pages[1].listed

RECURSIVE SumTo(_, _)
SumTo(counts, n) == IF n = 0 THEN 0 ELSE SumTo(counts, n - 1) + counts[n]

\* some render of the TOC loop produced as many pages as were assumed
ReachedFixedPoint == \E m \in 1..Len(tocLog) : tocLog[m].count = tocLog[m].hyp

\* the TOC loop of the running job has run to its end (by break or by
\* exhausting its iterations), not been left by an exception
TocLoopOver ==
  /\ TocJob
  /\ \E n \in 1..Len(trace) : trace[n] = "tocload"
  /\ pc \notin {"tocxsl", "tocrender", "tocrendering", "tocload"}
  /\ err.at \notin {"tocxsl", "tocrender", "tocload"}

(* ------------------------------- C1 ------------------------------------ *)
\* C1 as stated: whenever a job with TOC requested completes, the page the
\* emitted TOC lists for each input is the position of that input's first
\* page in the final merged document.
C1_AsStated ==
  (JobDone /\ TocJob) =>
    \A i \in 1..NumInputs :
      EmittedToc(FinalDocument)[i] = PositionOf(FinalDocument, i, 1)

\* C1 amended: when a job with TOC requested completes and the TOC loop
\* stopped at a fixed point (a TOC render produced exactly the hypothesised
\* page count), the page the emitted TOC lists for each input is the 1-based
\* position of that input's first page in the final merged document.
C1_TocPagesWhenConverged ==
  (JobDone /\ TocJob /\ ReachedFixedPoint) =>
    \A i \in 1..NumInputs :
      EmittedToc(FinalDocument)[i] = PositionOf(FinalDocument, i, 1)

C1_Witness ==
  /\ JobDone /\ TocJob /\ ReachedFixedPoint
  /\ NumInputs = 2
  /\ Len(tocLog) = 2
  /\ EmittedToc(FinalDocument) = <<3, 5>>

(* ------------------------------- C2 ------------------------------------ *)
\* C2: for every job that completes with TOC requested, pages
\* 1..tocPageCount of the final document are the pages of the kept TOC
\* buffer in order, and page tocPageCount+1 is the first page of the first
\* input, tocPageCount being the value the loop holds when it ends.
C2_TocFirst ==
  (JobDone /\ TocJob) =>
    /\ getPageCount(tocPdfBuffer) = tocPageCount
    /\ Len(FinalDocument.pages) > tocPageCount
    /\ \A k \in 1..tocPageCount : FinalDocument.pages[k] = tocPdfBuffer.pages[k]
    /\ FinalDocument.pages[tocPageCount + 1] = pdfBuffers[1].pages[1]

C2_Witness ==
  /\ JobDone /\ TocJob
  /\ ~ReachedFixedPoint
  /\ tocPageCount = 2
  /\ NumInputs = 2

(* ------------------------------- C3 ------------------------------------ *)
\* C3: if the first TOC iteration whose rendered page count equals the
\* current hypothesis is iteration m, then no render follows iteration m
\* (exactly m TOC renders), the buffer of render m is the one kept, and
\* tocPageCount equals the page count of that buffer.
C3_StopsAtFixedPoint ==
  \A m \in 1..Len(tocLog) :
    (/\ tocLog[m].count = tocLog[m].hyp
     /\ \A j \in 1..(m - 1) : tocLog[j].count # tocLog[j].hyp)
    => /\ Len(tocLog) = m
       /\ pc \notin {"tocxsl", "tocrender", "tocrendering"}
       /\ tocPdfBuffer.pages[1].idx = m
       /\ tocPageCount = getPageCount(tocPdfBuffer)
       /\ tocPageCount = tocLog[m].count

C3_Witness ==
  /\ TocLoopOver
  /\ pc = "title"
  /\ Len(tocLog) = 2
  /\ tocLog[1].count # tocLog[1].hyp
  /\ tocLog[2].count = tocLog[2].hyp

(* ------------------------------- C4 ------------------------------------ *)
\* C4: the TOC loop makes at most 3 renders, the first from the hypothesis
\* tocPageCount = 1; when no render ever matches its hypothesis the buffer
\* of the third render is kept and the job goes on to the TOC merge, the
\* title and the write with no error raised by the loop.
C4_AtMostThreeRenders ==
  /\ Len(tocLog) <= 3
  /\ Len(tocLog) >= 1 => tocLog[1].hyp = 1
  /\ (TocLoopOver /\ ~ReachedFixedPoint) =>
       /\ Len(tocLog) = 3
       /\ tocPdfBuffer.pages[1].idx = 3
       /\ getPageCount(tocPdfBuffer) = tocLog[3].count
       /\ pc \in {"tocmerge", "title", "mkdir", "write", "catch", "exited",
                  "done", "readline"}
       /\ err.at \in {"none", "tocmerge", "title", "mkdir", "write"}
       /\ err.name # "ExitError"

C4_Witness ==
  /\ JobDone /\ TocJob
  /\ ~ReachedFixedPoint
  /\ Len(tocLog) = 3
  /\ err = NoErr
  /\ Len(FinalDocument.pages) = getPageCount(tocPdfBuffer) + SumTo(pageCounts, NumInputs)

(* ------------------------------- C5 ------------------------------------ *)
\* the merged content of the inputs is in mergedPagesBuffer, no TOC yet
InputsMerged ==
  /\ \E n \in 1..Len(trace) : trace[n] = "merge"
  /\ \A n \in 1..Len(trace) : trace[n] # "tocmerge"

\* C5: merging buffers with page counts p1..pn (no TOC) yields p1+...+pn
\* pages; the pages of input i follow those of inputs 1..i-1, in their
\* original order and unchanged.
C5_MergeKeepsPages ==
  InputsMerged =>
    /\ getPageCount(mergedPagesBuffer) = SumTo(pageCounts, NumInputs)
    /\ \A i \in 1..NumInputs : \A k \in 1..pageCounts[i] :
         mergedPagesBuffer.pages[SumTo(pageCounts, i - 1) + k]
           = pdfBuffers[i].pages[k]

C5_Witness ==
  /\ InputsMerged
  /\ pageCounts = <<1, 2>>
  /\ getPageCount(mergedPagesBuffer) = 3

(* ------------------------------- C6 ------------------------------------ *)
CountOf(step) == Cardinality({n \in 1..Len(trace) : trace[n] = step})

\* every render, page-count load, TOC, merge and title step of the running
\* job has been made and has succeeded
AllStepsSucceeded ==
  /\ CountOf("render") = NumInputs
  /\ CountOf("load") = NumInputs
  /\ CountOf("merge") = 1
  /\ TocJob => /\ CountOf("tocrender") >= 1
               /\ CountOf("tocxsl") = CountOf("tocrender")
               /\ CountOf("tocload") = CountOf("tocrender")
               /\ CountOf("tocmerge") = 1
  /\ CountOf("title") = 1
  /\ CountOf("mkdir") = 1

\* buf holds every page of every input, the kept TOC when one was asked
\* for, nothing else, and the title when one was given
CompleteFinal(buf) ==
  /\ getPageCount(buf)
       = SumTo(pageCounts, NumInputs)
         + (IF TocJob THEN getPageCount(tocPdfBuffer) ELSE 0)
  /\ \A i \in 1..NumInputs : \A k \in 1..pageCounts[i] : PositionOf(buf, i, k) # 0
  /\ TocJob => \A k \in 1..getPageCount(tocPdfBuffer) :
                 \E n \in 1..Len(buf.pages) : buf.pages[n] = tocPdfBuffer.pages[k]
  /\ Truthy(job.options.title) => buf.title = job.options.title

\* C6 as stated (its last clause): if any step of a job fails, no truncated
\* or partial merged document is at the output destination.
C6_AsStated ==
  err.name = "Error" => \A p \in OutputPaths : outFiles[p] # Truncated

\* C6 amended: the output file of a job is touched only by the write step,
\* which runs only after every render, page-count load, TOC, merge and title
\* step of that job has succeeded; a write that succeeds leaves exactly the
\* complete final buffer at the job's output path, and a failure of any step
\* before the write leaves the filesystem untouched. Only a write that
\* itself fails can leave an incomplete file.
C6_WriteIsLastAndWhole ==
  [][outFiles' # outFiles =>
       /\ pc = "write"
       /\ AllStepsSucceeded
       /\ \A p \in OutputPaths \ {job.outputFile} : outFiles'[p] = outFiles[p]
       /\ \/ /\ err' = NoErr
             /\ outFiles'[job.outputFile] = finalBuffer
             /\ CompleteFinal(finalBuffer)
          \/ err'.at = "write"]_vars

C6_Witness ==
  /\ JobDone /\ TocJob
  /\ Truthy(job.options.title)
  /\ FinalDocument = finalBuffer
  /\ FinalDocument.title = "T1"
  /\ getPageCount(FinalDocument) >= 2

(* ------------------------------- C7 ------------------------------------ *)
BatchMode == options.readArgsFromStdin

Malformed(line) == line # <<>> /\ parseArgsArray(line, FALSE).exit # NoExit

WellFormed(line) == line # <<>> /\ parseArgsArray(line, FALSE).exit = NoExit

Logged(n, outcome) ==
  \E e \in 1..Len(lineLog) : lineLog[e].line = n /\ lineLog[e].outcome = outcome

\* C7 as stated: in batch mode, for a control stream of one malformed line
\* and one valid line (and no failing render, merge or write), when the
\* process has exited the valid line's output file has been produced and a
\* failure has been reported for the malformed line.
C7_AsStated ==
  (/\ BatchMode /\ pc = "exited" /\ err = NoErr
   /\ Len(stream) = 2
   /\ \E b, g \in 1..2 : Malformed(stream[b]) /\ WellFormed(stream[g]))
  => \A n \in 1..2 :
       /\ WellFormed(stream[n]) =>
            /\ Logged(n, "ok")
            /\ outFiles[parseArgsArray(stream[n], FALSE).outputFile].enc
                 \in {"chromium", "pdflib"}
       /\ Malformed(stream[n]) => Logged(n, "usage")

(* ------------------------------- C8 ------------------------------------ *)
\* C8 as stated: in batch mode the process exits only at stream end, every
\* non-blank line having been processed, or when a line's parse signals a
\* usage error; a failing render, transform, merge or write of one line
\* does not end the process.
C8_AsStated ==
  (BatchMode /\ pc = "exited") =>
    \/ \E n \in 1..Len(stream) : Logged(n, "usage")
    \/ /\ exitCode = 0
       /\ \A n \in 1..Len(stream) :
            stream[n] # <<>> => (Logged(n, "ok") \/ Logged(n, "failed"))

(* ------------------------------- C9 ------------------------------------ *)
OverridableScalars ==
  {"title", "orientation", "pageSize", "xslStyleSheet", "javascriptDelayMs"}

FlagsFor(k) ==
  CASE k = "title" -> {"--title"}
    [] k = "orientation" -> {"-O", "--orientation"}
    [] k = "pageSize" -> {"-s", "--page-size"}
    [] k = "xslStyleSheet" -> {"--xsl-style-sheet"}
    [] k = "javascriptDelayMs" -> {"--javascript-delay"}

\* C9 as stated: in batch mode the configuration of a line's job takes each
\* scalar option from the line when the line sets it and from the base
\* invocation otherwise.
C9_AsStated ==
  job.line > 0 =>
    \A k \in OverridableScalars :
      job.options[k] =
        IF FlagsFor(k) \cap Range(stream[job.line]) # {}
        THEN parseArgsArray(stream[job.line], FALSE).options[k]
        ELSE options[k]

(* ------------------------------- C10 ----------------------------------- *)
\* C10: in batch mode every list-valued option of a line's job is the base
\* invocation's entries followed by the line's entries, each in its
\* original order, none dropped or duplicated.
C10_ListsConcatenate ==
  job.line > 0 =>
    \A k \in ListKeys :
      LET b == options[k]
          l == parseArgsArray(stream[job.line], FALSE).options[k]
          m == job.options[k]
      IN  /\ Len(m) = Len(b) + Len(l)
          /\ \A i \in 1..Len(b) : m[i] = b[i]
          /\ \A i \in 1..Len(l) : m[Len(b) + i] = l[i]

C10_Witness ==
  /\ job.line > 0
  /\ job.options.customHeaders = <<Pair("H", "v"), Pair("H2", "v2")>>
  /\ job.options.runScript = <<"s.js", "t.js">>
  /\ job.options.cookies = <<Pair("c", "1")>>
  /\ job.options.allow = <<"p">>

(* ------------- the attribute escape applied to any string -------------- *)
MaxStrLen == 4

\* a string is the list of its characters
Chars(str) == str

EntAmp == <<"&", "a", "m", "p", ";">>
EntLt == <<"&", "l", "t", ";">>
EntGt == <<"&", "g", "t", ";">>
EntQuot == <<"&", "q", "u", "o", "t", ";">>
EntApos == <<"&", "a", "p", "o", "s", ";">>

\* String.prototype.replace(/c/g, r)
RECURSIVE Replace(_, _, _)
Replace(str, c, r) ==
  IF str = <<>> THEN <<>>
  ELSE (IF Head(str) = c THEN r ELSE <<Head(str)>>) \o Replace(Tail(str), c, r)

escapeXmlAttrAmpLast(value) ==
  Replace(Replace(Replace(Replace(Replace(Chars(value),
    "<", EntLt), ">", EntGt), "\"", EntQuot), "'", EntApos), "&", EntAmp)

escapeXmlAttr(value) ==
  Replace(Replace(Replace(Replace(Replace(Chars(value),
    "&", EntAmp), "<", EntLt), ">", EntGt), "\"", EntQuot), "'", EntApos)

\* title="${escapeXmlAttr(it.title)}": the attribute value with its quotes
OutlineAttr(value) == <<"\"">> \o escapeXmlAttr(value) \o <<"\"">>

\* the five reserved characters, and characters that let a string hold
\* the text of an entity reference
StrAlphabet == {"&", "<", ">", "\"", "'", "l", "t", ";"}

Strs == UNION {[1..n -> StrAlphabet] : n \in 0..MaxStrLen}

InitEscape ==
  /\ argv = <<>>
  /\ stream = <<>>
  /\ text \in Strs
  /\ InitRest("outline")

\* buildOutlineXml writes an attribute of an item
BuildAttr ==
  /\ pc = "outline"
  /\ escaped = Unset
  /\ escaped' = OutlineAttr(text)
  /\ UNCHANGED <<baseVars, pc, lineNo, job, jobVars, outFiles, err, exitCode,
                 lineLog, procVars, text, inches, cacheVars, tokens, rnd>>

NextEscape == BuildAttr

SpecEscape == InitEscape /\ [][NextEscape]_vars

(* ------------- the length conversion applied to any string ------------- *)
MaxUnitLen == 4

DigitChars == {"0", "1", "2", "3", "4", "5", "6", "7", "8", "9"}

DigitVal(c) ==
  CASE c = "0" -> 0 [] c = "1" -> 1 [] c = "2" -> 2 [] c = "3" -> 3
    [] c = "4" -> 4 [] c = "5" -> 5 [] c = "6" -> 6 [] c = "7" -> 7
    [] c = "8" -> 8 [] c = "9" -> 9

\* the whitespace that trim() removes
IsSpace(c) == c = " "

\* String.prototype.trim()
RECURSIVE TrimStart(_)
TrimStart(str) ==
  IF str # <<>> /\ IsSpace(Head(str)) THEN TrimStart(Tail(str)) ELSE str

RECURSIVE TrimEnd(_)
TrimEnd(str) ==
  IF str # <<>> /\ IsSpace(str[Len(str)])
  THEN TrimEnd(SubSeq(str, 1, Len(str) - 1)) ELSE str

Trim(str) == TrimEnd(TrimStart(str))

\* toLowerCase() on the letters of the unit names
LowerChar(c) ==
  CASE c = "P" -> "p" [] c = "X" -> "x" [] c = "M" -> "m" [] c = "C" -> "c"
    [] c = "I" -> "i" [] c = "N" -> "n" [] OTHER -> c

Lower(str) == [i \in 1..Len(str) |-> LowerChar(str[i])]

UnitNames == {<<"p", "x">>, <<"m", "m">>, <<"c", "m">>, <<"i", "n">>}

\* the number of leading digits of a string: what \d+ takes
RECURSIVE DigitPrefix(_)
DigitPrefix(str) ==
  IF str # <<>> /\ Head(str) \in DigitChars THEN 1 + DigitPrefix(Tail(str))
  ELSE 0

\* the value of a string of digits
RECURSIVE IntOf(_)
IntOf(ds) ==
  IF ds = <<>> THEN 0
  ELSE 10 * IntOf(SubSeq(ds, 1, Len(ds) - 1)) + DigitVal(ds[Len(ds)])

RECURSIVE Pow10(_)
Pow10(k) == IF k = 0 THEN 1 ELSE 10 * Pow10(k - 1)

NoMatch == [ok |-> FALSE, neg |-> FALSE, digits |-> <<>>, scale |-> 0,
            unit |-> <<>>]

\* /^(-?\d+(?:\.\d+)?)(px|mm|cm|in)?$/i: the sign, the digits of the number,
\* how many of them follow the point, and the unit as written
UnitRegex(str) ==
  LET neg == str # <<>> /\ Head(str) = "-"
      s1 == IF neg THEN Tail(str) ELSE str
      ip == DigitPrefix(s1)
      s2 == SubSeq(s1, ip + 1, Len(s1))
      fp == IF s2 # <<>> /\ Head(s2) = "." THEN DigitPrefix(Tail(s2)) ELSE 0
      s3 == IF fp > 0 THEN SubSeq(s2, fp + 2, Len(s2)) ELSE s2
  IN  IF ip = 0 THEN NoMatch
      ELSE IF s3 # <<>> /\ Lower(s3) \notin UnitNames THEN NoMatch
      ELSE [ok |-> TRUE, neg |-> neg,
            digits |-> SubSeq(s1, 1, ip) \o
                       (IF fp > 0 THEN SubSeq(s2, 2, fp + 1) ELSE <<>>),
            scale |-> fp, unit |-> s3]

RECURSIVE Gcd(_, _)
Gcd(a, b) == IF b = 0 THEN a ELSE Gcd(b, a % b)

Abs(a) == IF a < 0 THEN 0 - a ELSE a

\* the number num / den, in lowest terms
Ratio(num, den) ==
  LET g == Gcd(Abs(num), den)
  IN  [null |-> FALSE, num |-> num \div g, den |-> den \div g]

InchesCmAsMm(unit, num, den) ==
  CASE unit = <<"i", "n">> -> Ratio(num, den)
    [] unit = <<"c", "m">> -> Ratio(num * 10, den * 254)
    [] unit = <<"m", "m">> -> Ratio(num * 10, den * 254)
    [] unit = <<"p", "x">> -> Ratio(num, den * 96)
    [] OTHER -> Null

\* n, n / 2.54, n / 25.4, n / 96 for the number n = num / den
Inches(unit, num, den) ==
  CASE unit = <<"i", "n">> -> Ratio(num, den)
    [] unit = <<"c", "m">> -> Ratio(num * 100, den * 254)
    [] unit = <<"m", "m">> -> Ratio(num * 10, den * 254)
    [] unit = <<"p", "x">> -> Ratio(num, den * 96)
    [] OTHER -> Null

unitRealToInches(value) ==
  LET m == UnitRegex(Trim(Chars(value)))
      n == (IF m.neg THEN 0 - 1 ELSE 1) * IntOf(m.digits)
      unit == IF m.unit = <<>> THEN <<"m", "m">> ELSE Lower(m.unit)
  IN  IF ~m.ok THEN Null ELSE Inches(unit, n, Pow10(m.scale))

\* the strings the specification names
UnitExamples ==
  {<<"2", "5", ".", "4", "m", "m">>, <<"2", ".", "5", "4", "c", "m">>,
   <<"9", "6", "p", "x">>, <<"1", "i", "n">>,
   <<"a", "b", "c">>, <<"1", "0", " ", "f", "o", "o">>}

UnitAlphabet == {"1", ".", "-", "i", "n", "N", " "}

UnitStrs == UnitExamples \cup UNION {[1..n -> UnitAlphabet] : n \in 0..MaxUnitLen}

InitUnit ==
  /\ argv = <<>>
  /\ stream = <<>>
  /\ text \in UnitStrs
  /\ InitRest("unit")

\* a caller converts a length option
ConvertUnit ==
  /\ pc = "unit"
  /\ inches = NotConverted
  /\ inches' = unitRealToInches(text)
  /\ UNCHANGED <<baseVars, pc, lineNo, job, jobVars, outFiles, err, exitCode,
                 lineLog, procVars, text, escaped, cacheVars, tokens, rnd>>

NextUnit == ConvertUnit

SpecUnit == InitUnit /\ [][NextUnit]_vars

(* ------------------------------- C11 ----------------------------------- *)
\* the command line holds a flag the parser does not know
HasUnrecognizedFlag == "--bogus" \in Range(argv)

NothingWritten == \A f \in OutputPaths : outFiles[f] = Absent

NothingRendered == rendered = <<>> /\ trace = <<>> /\ openWindows = 0

\* C11 as stated: once a command line with an unrecognized flag has been
\* parsed, the process has terminated with exit code 2, no render has been
\* started and no output file has been written.
C11_AsStated ==
  (HasUnrecognizedFlag /\ pc \notin {"launch", "start", "unhandled"}) =>
    /\ pc \in {"exited", "done"}
    /\ exitCode = 2
    /\ pc = "done" => launcherCode = 2
    /\ NothingRendered
    /\ NothingWritten

(* ------------------------------- C12 ----------------------------------- *)
\* a command line whose flags parse, that is not a batch invocation, and
\* that has fewer than one input and one output path
TooFewPositionals(args) ==
  \/ args = <<>>
  \/ LET r == parseArgsArray(args, TRUE)
     IN  /\ r.exit = NoExit
         /\ ~r.options.readArgsFromStdin
         /\ (r.outputFile = Undefined \/ r.inputs = <<>>)

SingleMode == job.line = 0 /\ job # NoJob

\* C13: in single-invocation mode the process exits with code 0 only once
\* the output file holds the final buffer, it exits with code 1 whenever a
\* render, transform, merge or filesystem step has failed, and the
\* launcher exits with the same code.
C13_ExitCodes ==
  (SingleMode /\ pc \in {"exited", "done"}) =>
    /\ exitCode = 0 => (JobDone /\ FinalDocument = finalBuffer
                        /\ finalBuffer # NullBuffer /\ err = NoErr)
    /\ err.name = "Error" => exitCode = 1
    /\ exitCode \in {0, 1}
    /\ pc = "done" => launcherCode = exitCode

C13_Witness ==
  /\ SingleMode
  /\ pc = "done"
  /\ err = Error("tocrender")
  /\ exitCode = 1
  /\ launcherCode = 1

(* ------------------------------- C14 ----------------------------------- *)
\* the positional tokens of the command line: those that are not the flag
PositionalsOf(args) == SelectSeq(args, LAMBDA t : t # "--read-args-from-stdin")

NotToc(t) == t # "toc"

\* C14: when the parse of a command line with at least one positional
\* returns, the final positional is the output path, the TOC flag is set
\* exactly when a toc token stands before the final positional, and the
\* inputs are the other non-final positionals in their order.
C14_TocTokenAndPositionals ==
  LET pos == PositionalsOf(argv)
      before == SubSeq(pos, 1, Len(pos) - 1)
  IN  (pc = "ready" /\ Len(pos) > 0) =>
        /\ outputFile = pos[Len(pos)]
        /\ inputs = SelectSeq(before, NotToc)
        /\ options.toc = (\E i \in 1..Len(before) : before[i] = "toc")

C14_Witness ==
  /\ argv = <<"a.html", "toc", "b.html", "toc">>
  /\ pc = "ready"
  /\ inputs = <<"a.html", "b.html">>
  /\ outputFile = "toc"
  /\ options.toc

(* ------------------------------- C15 ----------------------------------- *)
\* C15: when a job with exactly one input, no TOC and no title has written
\* its output, the merged content is the renderer's buffer itself and the
\* file written holds that buffer, as the browser serialised it.
C15_SingleInputUntouched ==
  (JobDone /\ NumInputs = 1 /\ ~TocJob /\ ~Truthy(job.options.title)) =>
    /\ mergedPagesBuffer = pdfBuffers[1]
    /\ FinalDocument = pdfBuffers[1]
    /\ FinalDocument.enc = "chromium"

C15_Witness ==
  /\ JobDone /\ NumInputs = 1 /\ ~TocJob /\ ~Truthy(job.options.title)
  /\ FinalDocument = RenderedInput(1, 2)

(* ------------------------------- C16 ----------------------------------- *)
NotWellFormed == <<"malformed">>

IsPrefix(pre, str) == Len(pre) <= Len(str) /\ SubSeq(str, 1, Len(pre)) = pre

Entities ==
  {<<EntAmp, "&">>, <<EntLt, "<">>, <<EntGt, ">">>, <<EntQuot, "\"">>,
   <<EntApos, "'">>}

\* what an XML parser reads from a quoted attribute value: the characters
\* up to the closing quote, each predefined entity reference replaced by
\* its character; a bare & or < is not well-formed
RECURSIVE AttrValue(_, _)
AttrValue(str, acc) ==
  IF str = <<>> THEN NotWellFormed
  ELSE IF Head(str) = "\"" THEN (IF Len(str) = 1 THEN acc ELSE NotWellFormed)
  ELSE IF Head(str) = "<" THEN NotWellFormed
  ELSE IF Head(str) = "&"
    THEN LET m == {e \in Entities : IsPrefix(e[1], str)}
         IN  IF m = {} THEN NotWellFormed
             ELSE LET e == CHOOSE x \in m : TRUE
                  IN  AttrValue(SubSeq(str, Len(e[1]) + 1, Len(str)),
                                Append(acc, e[2]))
  ELSE AttrValue(Tail(str), Append(acc, Head(str)))

XmlUnescape(attr) ==
  IF attr = <<>> \/ Head(attr) # "\"" THEN NotWellFormed
  ELSE AttrValue(Tail(attr), <<>>)

\* C16: for every string over the five reserved characters and the
\* characters of an entity name, the attribute that buildOutlineXml writes
\* for it is read back by an XML parser as exactly that string.
C16_EscapeRoundTrip ==
  escaped # Unset => XmlUnescape(escaped) = text

C16_Witness ==
  /\ text = <<"&", "l", "t", ";">>
  /\ escaped = <<"\"", "&", "a", "m", "p", ";", "l", "t", ";", "\"">>
  /\ XmlUnescape(escaped) = text

(* ------------------------------- C17 ----------------------------------- *)
One == [null |-> FALSE, num |-> 1, den |-> 1]

OneInchStrs ==
  {<<"2", "5", ".", "4", "m", "m">>, <<"2", ".", "5", "4", "c", "m">>,
   <<"9", "6", "p", "x">>, <<"1", "i", "n">>}

AllDigits(str) == str # <<>> /\ \A i \in 1..Len(str) : str[i] \in DigitChars

\* a decimal number: digits, with an optional minus sign before them and
\* an optional point and digits after them
IsDecimal(str) ==
  LET u == IF str # <<>> /\ Head(str) = "-" THEN Tail(str) ELSE str
  IN  \/ AllDigits(u)
      \/ \E d \in 1..Len(u) :
           /\ u[d] = "."
           /\ AllDigits(SubSeq(u, 1, d - 1))
           /\ AllDigits(SubSeq(u, d + 1, Len(u)))

\* a decimal number optionally followed by one of the given unit names
NumberWithUnit(str, names) ==
  \/ IsDecimal(str)
  \/ /\ Len(str) > 2
     /\ SubSeq(str, Len(str) - 1, Len(str)) \in names
     /\ IsDecimal(SubSeq(str, 1, Len(str) - 2))

AnyCase(names) == {u \in [1..2 -> {"p", "x", "m", "c", "i", "n", "P", "X", "M", "C", "I", "N"}] :
                     Lower(u) \in names}

\* C17 as stated: the conversion gives exactly 1 for 25.4mm, 2.54cm, 96px
\* and 1in, and gives null for every string that is not a decimal number
\* optionally followed by one of px, mm, cm, in.
C17_AsStated ==
  inches # NotConverted =>
    /\ text \in OneInchStrs => inches = One
    /\ ~NumberWithUnit(text, UnitNames) => inches = Null

\* C17 amended: the conversion gives exactly 1 for 25.4mm, 2.54cm, 96px and
\* 1in, and gives null exactly for the strings that, once the white space
\* around them is removed, are not a decimal number optionally followed by
\* one of px, mm, cm, in written in either case.
C17_NullOutsideTrimmedGrammar ==
  inches # NotConverted =>
    /\ text \in OneInchStrs => inches = One
    /\ ~NumberWithUnit(Trim(text), AnyCase(UnitNames)) <=> inches = Null

C17_Witness ==
  /\ text = <<"1", "0", " ", "f", "o", "o">>
  /\ inches = Null

(* ------------------------------- C18 ----------------------------------- *)
\* C18: every TOC iteration gives input i the page tocPageCount + 1 + the
\* sum of the page counts of the inputs before it, tocPageCount being the
\* hypothesis held when the iteration starts.
C18_PagesFromHypothesis ==
  [][(pc = "tocxsl" /\ pc' = "tocrender") =>
       /\ Len(items') = NumInputs
       /\ Len(pageCounts) = NumInputs
       /\ \A i \in 1..NumInputs :
            items'[i].page = tocPageCount + 1 + SumTo(pageCounts, i - 1)]_vars

C18_Witness ==
  /\ pc = "tocrender"
  /\ iter = 1
  /\ tocPageCount = 2
  /\ pageCounts = <<2, 1>>
  /\ ListedPages(items) = <<3, 5>>

(* ------------------------------- C19 ----------------------------------- *)
\* renders of the running job that have returned their buffer
RendersReturned == CountOf("render") + CountOf("tocrender")

\* the render loop of the running job has run to its end
RenderLoopOver ==
  /\ job # NoJob
  /\ pc \notin {"render", "rendering", "load"}
  /\ err.at \notin {"render", "load"}

\* C19: the renderer is called for the inputs of a job in their order, once
\* each, and for nothing else but the TOC after them; at most one window
\* is open at any time; and a render starts only when every earlier render
\* has returned its buffer and closed its window.
C19_OneRenderAtATime ==
  /\ [](/\ openWindows \in {0, 1}
        /\ \A n \in 1..Len(rendered) :
             IF n <= NumInputs THEN rendered[n] = InputUrl(job.inputs[n])
             ELSE TocJob /\ rendered[n].url = "data:text/html;base64"
        /\ RenderLoopOver =>
             (Len(rendered) >= NumInputs /\ Len(pdfBuffers) = NumInputs))
  /\ [][Len(rendered') = Len(rendered) + 1 =>
          (openWindows = 0 /\ RendersReturned = Len(rendered))]_vars

C19_Witness ==
  /\ NumInputs = 2
  /\ pc = "tocrendering"
  /\ iter = 1
  /\ Len(rendered) = 4
  /\ openWindows = 1
  /\ RendersReturned = 3

(* ------------------------------- C20 ----------------------------------- *)
\* a step of the running job has failed
StepFailed == err.name = "Error"

\* C20: once a step of a job has failed, nothing of the job changes any
\* more: no render is started or returns, no transform, merge, title or
\* write step is made, the output files stay as they are, and the process
\* only goes through its catch block to its exit.
C20_NoStepAfterFailure ==
  [][StepFailed =>
       /\ UNCHANGED <<job, jobVars, outFiles, openWindows, err>>
       /\ pc' \in {"catch", "exited", "done"}]_vars

C20_Witness ==
  /\ StepFailed
  /\ err.at = "tocload"
  /\ CountOf("tocrender") = 2
  /\ pc = "done"
  /\ NothingWritten

(* ---------------- the tokenizer applied to any batch line --------------- *)
MaxLineLen == 5

QuoteEscapesNever(quote) == FALSE

\* quote === '"': a backslash escapes inside double quotes only
QuoteEscapes(quote) == quote = "\""

\* the loop of tokenizeArgLine at character i (counted from 1), with the
\* tokens pushed so far, the token being built and the open quote ("" for
\* null)
RECURSIVE TokLoop(_, _, _, _, _)
TokLoop(str, i, out, cur, quote) ==
  IF i > Len(str) THEN (IF Len(cur) > 0 THEN Append(out, cur) ELSE out)
  ELSE
    LET ch == str[i]
    IN  IF quote # ""
        THEN IF ch = quote THEN TokLoop(str, i + 1, out, cur, "")
             ELSE IF QuoteEscapes(quote) /\ ch = "\\" /\ i + 1 <= Len(str)
               THEN TokLoop(str, i + 2, out, Append(cur, str[i + 1]), quote)
             ELSE TokLoop(str, i + 1, out, Append(cur, ch), quote)
        ELSE IF ch = "\"" \/ ch = "'" THEN TokLoop(str, i + 1, out, cur, ch)
        ELSE IF ch = "\\" /\ i + 1 <= Len(str)
          THEN TokLoop(str, i + 2, out, Append(cur, str[i + 1]), "")
        ELSE IF IsSpace(ch)
          THEN TokLoop(str, i + 1,
                       IF Len(cur) > 0 THEN Append(out, cur) ELSE out, <<>>, "")
        ELSE TokLoop(str, i + 1, out, Append(cur, ch), "")

tokenizeArgLine(line) == TokLoop(Chars(line), 1, <<>>, <<>>, "")

\* a letter, white space, the two quotes and the backslash
LineAlphabet == {"a", " ", "\"", "'", "\\"}

Lines == UNION {[1..n -> LineAlphabet] : n \in 0..MaxLineLen}

InitTokenize ==
  /\ argv = <<>>
  /\ stream = <<>>
  /\ text \in Lines
  /\ InitMain("tokenize")
  /\ CacheIdle
  /\ RendererIdle
  /\ tokens = NotTokenized

\* the batch loop trims the line it has read and tokenises it
TokenizeLine ==
  /\ pc = "tokenize"
  /\ tokens = NotTokenized
  /\ tokens' = tokenizeArgLine(Trim(text))
  /\ pc' = "tokenized"
  /\ UNCHANGED <<baseVars, lineNo, job, jobVars, outFiles, err, exitCode,
                 lineLog, procVars, text, escaped, inches, cacheVars, rnd>>

NextTokenize == TokenizeLine

SpecTokenize == InitTokenize /\ [][NextTokenize]_vars

(* ------------------- the cache of compiled stylesheets ------------------ *)
MaxRequests == 3

\* the processes that share the cache directory
Procs == 1..2

\* the keys of the requests a process makes one after the other
KeyLists == UNION {[1..n -> Keys] : n \in 1..MaxRequests}

SameKeyLists(k) == {[i \in 1..n |-> k] : n \in 1..MaxRequests}

\* a process that will make the given requests
Requester(todo) == [pc |-> "idle", key |-> "k1", todo |-> todo, got |-> "none"]

\* the state of a cache file left by earlier runs
InitSef == sef \in [Keys -> {"absent", "complete"}]

InitCacheRest ==
  /\ InitSef
  /\ compiles = [p \in DOMAIN cproc |-> [k \in Keys |-> 0]]
  /\ argv = <<>>
  /\ stream = <<>>
  /\ text = <<>>
  /\ tokens = NotTokenized
  /\ RendererIdle
  /\ InitMain("cache")

\* one process, its requests for any keys
InitCacheOne ==
  /\ cproc \in [{1} -> {Requester(l) : l \in KeyLists}]
  /\ InitCacheRest

\* the processes, all their requests for the same key
InitCache ==
  /\ \E k \in Keys : cproc \in [Procs -> {Requester(l) : l \in SameKeyLists(k)}]
  /\ InitCacheRest

cacheFrame ==
  <<baseVars, pc, lineNo, job, jobVars, outFiles, err, exitCode, lineLog,
    procVars, text, escaped, inches, tokens, rnd>>

\* tocHtmlFromOutlineXml calls getCompiledStylesheetForXsl({xslText, cacheKey})
CacheRequest(p) ==
  /\ cproc[p].pc = "idle"
  /\ cproc[p].todo # <<>>
  /\ cproc' = [cproc EXCEPT ![p].pc = "access", ![p].key = Head(cproc[p].todo),
                             ![p].todo = Tail(cproc[p].todo)]
  /\ UNCHANGED <<sef, compiles, cacheFrame>>

SefNeverFound(f) == FALSE

\* fs.promises.access(sefPath) resolves: the file is there, whatever it holds
SefFound(f) == f # "absent"

\* try { await access(sefPath) } catch { ... }
CacheAccess(p) ==
  /\ cproc[p].pc = "access"
  /\ cproc' = [cproc EXCEPT ![p].pc = IF SefFound(sef[cproc[p].key])
                                      THEN "read" ELSE "writexsl"]
  /\ UNCHANGED <<sef, compiles, cacheFrame>>

\* writeFile(xslPath, xslText)
CacheWriteXsl(p) ==
  /\ cproc[p].pc = "writexsl"
  /\ cproc' = [cproc EXCEPT ![p].pc = "spawn"]
  /\ UNCHANGED <<sef, compiles, cacheFrame>>

\* runXslt3Compile spawns the compiler
CompileSpawn(p) ==
  /\ cproc[p].pc = "spawn"
  /\ compiles' = [compiles EXCEPT ![p][cproc[p].key] = @ + 1]
  /\ cproc' = [cproc EXCEPT ![p].pc = "compiling"]
  /\ UNCHANGED <<sef, cacheFrame>>

\* the compiler opens the export file at sefPath itself and starts to
\* write: the file is there and holds a part of the artifact
CompileOpen(p) ==
  /\ cproc[p].pc = "compiling"
  /\ sef' = [sef EXCEPT ![cproc[p].key] = "partial"]
  /\ cproc' = [cproc EXCEPT ![p].pc = "writing"]
  /\ UNCHANGED <<compiles, cacheFrame>>

\* the compiler has written the whole file and exits with code 0 (from
\* "compiling": an export that appears at once)
CompileDone(p) ==
  /\ cproc[p].pc \in {"compiling", "writing"}
  /\ sef' = [sef EXCEPT ![cproc[p].key] = "complete"]
  /\ cproc' = [cproc EXCEPT ![p].pc = "read"]
  /\ UNCHANGED <<compiles, cacheFrame>>

\* the compiler exits with another code, or cannot be spawned: the promise
\* rejects and the file stays as it is
CompileFail(p) ==
  /\ cproc[p].pc \in {"compiling", "writing"}
  /\ cproc' = [cproc EXCEPT ![p].pc = "failed"]
  /\ UNCHANGED <<sef, compiles, cacheFrame>>

\* JSON.parse(await readFile(sefPath)): the artifact, or an exception for a
\* missing file or for text that is not the whole JSON
CacheRead(p) ==
  /\ cproc[p].pc = "read"
  /\ cproc' = [cproc EXCEPT ![p].got = sef[cproc[p].key],
                             ![p].pc = IF sef[cproc[p].key] = "complete"
                                       THEN "idle" ELSE "failed"]
  /\ UNCHANGED <<sef, compiles, cacheFrame>>

NextCache ==
  \/ \E p \in DOMAIN cproc : CacheRequest(p)
  \/ \E p \in DOMAIN cproc : CacheAccess(p)
  \/ \E p \in DOMAIN cproc : CacheWriteXsl(p)
  \/ \E p \in DOMAIN cproc : CompileSpawn(p)
  \/ \E p \in DOMAIN cproc : CompileOpen(p)
  \/ \E p \in DOMAIN cproc : CompileDone(p)
  \/ \E p \in DOMAIN cproc : CompileFail(p)
  \/ \E p \in DOMAIN cproc : CacheRead(p)

SpecCacheOne == InitCacheOne /\ [][NextCache]_vars

SpecCache == InitCache /\ [][NextCache]_vars

(* --------------------- the inside of one page render -------------------- *)
\* the wait handed to waitForWindowStatus and the pause between two polls
WindowStatusTimeoutMs == 30000
PollIntervalMs == 250

\* the time one executeJavaScript('window.status') takes to answer
PollMs == {0, 250}

\* what the page exposes as window.status when it is polled
PageStatuses == {"", "busy", "ready"}

\* the values of --window-status that are tried
WindowStatuses == {Undefined, "ready"}

RaceResultIdleAlways(first) == TRUE

\* Promise.race of the idle promise (true, whether it resolved or rejected)
\* and the timer (false): the value of the one that settles first
RaceResult(first) == first = "idle"

WithinCeilingHalf(elapsed, timeoutMs) == elapsed * 2 < timeoutMs

\* (Date.now() - start) < timeoutMs
WithinCeiling(elapsed, timeoutMs) == elapsed < timeoutMs

\* the page has been loaded: win.loadURL has returned
InitRenderer ==
  /\ argv = <<>>
  /\ stream = <<>>
  /\ text = <<>>
  /\ tokens = NotTokenized
  /\ CacheIdle
  /\ InitMain("renderer")
  /\ \E s \in BOOLEAN, w \in WindowStatuses :
       rnd = [RenderOf(s, w) EXCEPT !.pc = "loaded"]

RendererStep(next) ==
  /\ rnd' = next
  /\ UNCHANGED <<baseVars, pc, lineNo, job, jobVars, outFiles, err, exitCode,
                 lineLog, procVars, text, escaped, inches, cacheVars, tokens>>

\* if (options.stopSlowScripts): the idle promise and the timer are started
SlowScriptsCheck ==
  /\ rnd.pc = "loaded"
  /\ RendererStep([rnd EXCEPT
       !.pc = IF rnd.stopSlowScripts THEN "race" ELSE "status"])

\* the idle promise settles first, resolved or rejected
IdleSettles ==
  /\ rnd.pc = "race"
  /\ \E outcome \in {"resolved", "rejected"} :
       RendererStep([rnd EXCEPT !.first = "idle", !.idle = outcome,
                                !.idleWon = RaceResult("idle"),
                                !.pc = IF RaceResult("idle") THEN "status"
                                       ELSE "stop"])

\* the timer fires first
TimerFires ==
  /\ rnd.pc = "race"
  /\ RendererStep([rnd EXCEPT !.first = "timer",
                              !.idleWon = RaceResult("timer"),
                              !.pc = IF RaceResult("timer") THEN "status"
                                     ELSE "stop"])

\* executeJavaScript('window.stop && window.stop()') is called
StopDirective ==
  /\ rnd.pc = "stop"
  /\ RendererStep([rnd EXCEPT !.directives = @ + 1, !.pc = "stopping"])

\* the call returns and the warning is written to standard error
StopWarning ==
  /\ rnd.pc = "stopping"
  /\ RendererStep([rnd EXCEPT !.warnings = @ + 1, !.pc = "status"])

\* an awaited executeJavaScript rejects: the renderer failed to execute the
\* script, and the rejection leaves renderSingleToPdfBuffer
CallRejects ==
  /\ rnd.pc \in {"stopping", "polling"}
  /\ RendererStep([rnd EXCEPT
       !.rejected = IF rnd.pc = "stopping" THEN "stop" ELSE "poll",
       !.pc = "failed"])

\* the scripts, the style sheet and the zoom factor are applied, then
\* if (options.windowStatus): the wait starts
WindowStatusCheck ==
  /\ rnd.pc = "status"
  /\ RendererStep([rnd EXCEPT
       !.elapsed = 0,
       !.pc = IF Truthy(rnd.windowStatus) THEN "loophead" ELSE "pdf"])

\* the condition of the while loop of waitForWindowStatus
WaitLoopHead ==
  /\ rnd.pc = "loophead"
  /\ RendererStep([rnd EXCEPT
       !.pc = IF WithinCeiling(rnd.elapsed, WindowStatusTimeoutMs)
              THEN "polling" ELSE "pdf"])

\* one poll answers: return on the expected value, else sleep
PollAnswers ==
  /\ rnd.pc = "polling"
  /\ \E st \in PageStatuses, d \in PollMs :
       RendererStep([rnd EXCEPT
         !.status = st, !.elapsed = @ + d,
         !.pc = IF st = rnd.windowStatus THEN "pdf" ELSE "sleep"])

\* setTimeout(r, 250)
PollSleep ==
  /\ rnd.pc = "sleep"
  /\ RendererStep([rnd EXCEPT !.elapsed = @ + PollIntervalMs,
                              !.pc = "loophead"])

\* the delay, printToPDF and win.close()
PrintToPdf ==
  /\ rnd.pc = "pdf"
  /\ RendererStep([rnd EXCEPT !.pc = "closed"])

NextRenderer ==
  \/ SlowScriptsCheck
  \/ IdleSettles
  \/ TimerFires
  \/ StopDirective
  \/ StopWarning
  \/ CallRejects
  \/ WindowStatusCheck
  \/ WaitLoopHead
  \/ PollAnswers
  \/ PollSleep
  \/ PrintToPdf

SpecRenderer == InitRenderer /\ [][NextRenderer]_vars

\* every awaited promise settles and every timer fires
SpecRendererFair == SpecRenderer /\ WF_vars(NextRenderer)

(* ------------------------------- C21 ----------------------------------- *)
\* the positions at which a step of the running job is under way
JobSteps ==
  {"render", "rendering", "load", "merge", "tocxsl", "tocrender",
   "tocrendering", "tocload", "tocmerge", "title", "mkdir", "write"}

\* C21: in batch mode the running job is always that of the non-blank line
\* read last; a line is read only when no job is under way; a non-blank
\* line is parsed only when the job of every non-blank line before it has
\* written its output file; and reading a blank line starts no job.
C21_LinesInOrder ==
  /\ [](BatchMode =>
          /\ job.line > 0 => (stream[job.line] # <<>> /\ job.line <= lineNo)
          /\ pc \in JobSteps => job.line = lineNo
          /\ \A e \in 1..Len(lineLog) :
               /\ stream[lineLog[e].line] # <<>>
               /\ e > 1 => lineLog[e - 1].line < lineLog[e].line)
  /\ [][lineNo' # lineNo =>
          /\ lineNo' = lineNo + 1
          /\ pc \notin JobSteps
          /\ job = NoJob \/ (JobDone /\ FinalDocument = finalBuffer)
          /\ stream[lineNo'] = <<>> => UNCHANGED <<job, jobVars, outFiles>>
          /\ stream[lineNo'] # <<>> =>
               \A n \in 1..lineNo : stream[n] # <<>> => Logged(n, "ok")]_vars

C21_Witness ==
  /\ BatchMode
  /\ Len(stream) = 2 /\ stream[1] # <<>> /\ stream[2] # <<>>
  /\ Logged(1, "ok")
  /\ job.line = 2
  /\ pc = "rendering"

(* ------------------------------- C22 ----------------------------------- *)
\* the options the base parse of the command line gave
BaseAtStart == parseArgsArray(argv, TRUE).options

\* C22: in batch mode the base options stay what the parse of the command
\* line made them whatever lines have been processed, and the options of a
\* line's job are those base options merged with that line's own options
\* only.
C22_BaseUntouched ==
  ("--read-args-from-stdin" \in Range(argv) /\ pc \notin {"launch", "start"}) =>
    /\ options = BaseAtStart
    /\ job.line > 0 =>
         job.options =
           mergeOptions(BaseAtStart, parseArgsArray(stream[job.line], FALSE).options)

C22_Witness ==
  /\ job.line = 2
  /\ Logged(1, "ok")
  /\ "--cookie" \in Range(stream[1])
  /\ "toc" \in Range(stream[2])
  /\ options = BaseAtStart
  /\ job.options.customHeaders = <<Pair("H", "v")>>
  /\ job.options.cookies = <<>>
  /\ job.options.orientation = "Portrait"

(* ------------------------------- C23 ----------------------------------- *)
\* C23: every TOC iteration builds its list of items anew with one item for
\* each input, in the inputs' order, the title being the input as given and
\* the link its normalized URL; and the outline made of the list has one
\* root, one item in it, and in that item one child for each item of the
\* list, in the same order.
C23_OutlineFollowsInputs ==
  [][/\ (pc = "tocxsl" /\ pc' = "tocrender") =>
          /\ Len(items') = NumInputs
          /\ \A i \in 1..NumInputs :
               /\ items'[i].title = job.inputs[i]
               /\ items'[i].link = normalizeInputToUrl(job.inputs[i])
     /\ (pc = "tocrender" /\ pc' = "tocrendering") =>
          LET x == rendered'[Len(rendered')].html
          IN  /\ x.root = "outline:outline"
              /\ Len(x.items) = 1
              /\ x.items[1].name = "outline:item"
              /\ Len(x.items[1].children) = NumInputs
              /\ \A i \in 1..NumInputs :
                   /\ x.items[1].children[i].name = "outline:item"
                   /\ x.items[1].children[i].title = job.inputs[i]
                   /\ x.items[1].children[i].link =
                        normalizeInputToUrl(job.inputs[i])
                   /\ x.items[1].children[i].page = items[i].page]_vars

C23_Witness ==
  /\ pc = "tocrendering"
  /\ iter = 1
  /\ job.inputs = <<"a.html", "b.html">>
  /\ rendered[Len(rendered)].html.items[1].children[2].title = "b.html"
  /\ rendered[Len(rendered)].html.items[1].children[2].page =
       tocPageCount + 1 + pageCounts[1]

(* ------------------------------- C24 ----------------------------------- *)
\* C24: while the compiled artifact of a key is on disk, no step invokes
\* the compiler for that key or changes the file, and a request for the
\* key that ends returns the artifact; and a process, which makes up to 3
\* requests in one TOC computation, runs the compiler at most once for a
\* key.
C24_StoredArtifactReused ==
  /\ [](\A p \in DOMAIN cproc : \A k \in Keys : compiles[p][k] <= 1)
  /\ [][\A k \in Keys : sef[k] = "complete" =>
          /\ sef'[k] = "complete"
          /\ \A p \in DOMAIN cproc :
               /\ compiles'[p][k] = compiles[p][k]
               /\ (cproc[p].key = k /\ cproc[p].pc = "read") =>
                    (cproc'[p].pc = "idle" /\ cproc'[p].got = "complete")]_vars

C24_Witness ==
  /\ DOMAIN cproc = {1}
  /\ cproc[1].todo = <<>>
  /\ cproc[1].pc = "idle"
  /\ cproc[1].key = "k1"
  /\ cproc[1].got = "complete"
  /\ compiles[1]["k1"] = 0
  /\ compiles[1]["k2"] = 1

(* ------------------------------- C25 ----------------------------------- *)
\* every process has made all its requests or has failed
AllRequestsOver ==
  \A p \in DOMAIN cproc :
    \/ cproc[p].pc = "failed"
    \/ cproc[p].pc = "idle" /\ cproc[p].todo = <<>>

\* C25 as stated: when two processes ask for the compiled stylesheet of the
\* same key at the same time, neither reads a missing or partly written
\* entry, every request that ends gives the complete artifact, and the
\* entry left on disk when both are done is complete.
C25_AsStated ==
  /\ \A p \in DOMAIN cproc : cproc[p].got \in {"none", "complete"}
  /\ \A p \in DOMAIN cproc :
       cproc[p].pc = "read" => sef[cproc[p].key] = "complete"
  /\ (AllRequestsOver /\ \A p \in DOMAIN cproc : cproc[p].pc # "failed") =>
       \A k \in Keys : sef[k] \in {"absent", "complete"}

(* ------------------------------- C26 ----------------------------------- *)
Lit(ch) == [kind |-> "lit", ch |-> ch]
Sep == [kind |-> "sep", ch |-> " "]
Drop == [kind |-> "drop", ch |-> ""]

\* what each character of a line is: a character of a token, white space
\* that splits, or a quote or backslash that is removed; a backslash makes
\* the character after it a character of a token, inside single quotes
\* only if escInSingle
RECURSIVE Marks(_, _, _, _)
Marks(str, i, mode, escInSingle) ==
  IF i > Len(str) THEN <<>>
  ELSE IF str[i] = "\\" /\ i < Len(str) /\ (mode # "'" \/ escInSingle)
    THEN <<Drop, Lit(str[i + 1])>> \o Marks(str, i + 2, mode, escInSingle)
  ELSE IF mode = "" /\ str[i] \in {"\"", "'"}
    THEN <<Drop>> \o Marks(str, i + 1, str[i], escInSingle)
  ELSE IF mode # "" /\ str[i] = mode
    THEN <<Drop>> \o Marks(str, i + 1, "", escInSingle)
  ELSE IF mode = "" /\ str[i] = " "
    THEN <<Sep>> \o Marks(str, i + 1, mode, escInSingle)
  ELSE <<Lit(str[i])>> \o Marks(str, i + 1, mode, escInSingle)

\* the non-empty runs of token characters between the splitting marks
RECURSIVE Runs(_)
Runs(marks) ==
  IF marks = <<>> THEN <<>>
  ELSE LET seps == {n \in 1..Len(marks) : marks[n].kind = "sep"}
           cut == IF seps = {} THEN Len(marks) + 1
                  ELSE CHOOSE n \in seps : \A o \in seps : n <= o
           first == SelectSeq(SubSeq(marks, 1, cut - 1),
                              LAMBDA m : m.kind = "lit")
           run == [n \in 1..Len(first) |-> first[n].ch]
       IN  (IF run = <<>> THEN <<>> ELSE <<run>>)
           \o Runs(SubSeq(marks, cut + 1, Len(marks)))

ExpectedTokens(str, escInSingle) == Runs(Marks(str, 1, "", escInSingle))

\* C26 as stated: the tokens of a line are its runs of characters between
\* unquoted white space, with the quote characters removed and every
\* backslash removed and the character after it taken as it is.
C26_AsStated ==
  tokens # NotTokenized => tokens = ExpectedTokens(Trim(text), TRUE)

\* C26 amended: the same, but a backslash inside a single-quoted segment is
\* an ordinary character of the token (and so is a backslash that ends the
\* line).
C26_BackslashLiteralInSingleQuotes ==
  tokens # NotTokenized => tokens = ExpectedTokens(Trim(text), FALSE)

C26_Witness ==
  /\ text = <<"'", "\\", "'", " ", "a">>
  /\ tokens = <<<<"\\">>, <<"a">>>>

(* ------------------------------- C27 ----------------------------------- *)
\* the timer fired while the idle promise was still pending
TimeoutFirst == rnd.first = "timer"

InWait == rnd.pc \in {"loophead", "polling", "sleep"}

TocLoopExhausted == Len(tocLog) = TocIterations /\ ~ReachedFixedPoint

\* C29: when a job has completed after its TOC loop ran its 3 iterations
\* without a fixed point, the TOC that opens the final document is the third
\* render, the page it lists for input i is h + 1 + the page counts of the
\* inputs before i, h being the page count of the second render, and that
\* page minus the position of the input's first page in the final document
\* is h minus the page count of the kept TOC, the same for every input.
C29_ExhaustedTocOffByOneAmount ==
  (JobDone /\ TocJob /\ TocLoopExhausted) =>
    LET h == tocLog[2].count
        kept == getPageCount(tocPdfBuffer)
    IN  /\ kept = tocLog[TocIterations].count
        /\ SubSeq(FinalDocument.pages, 1, kept) = tocPdfBuffer.pages
        /\ \A i \in 1..NumInputs :
             /\ EmittedToc(FinalDocument)[i]
                  = h + 1 + SumTo(pageCounts, i - 1)
             /\ EmittedToc(FinalDocument)[i]
                  - PositionOf(FinalDocument, i, 1) = h - kept

C29_Witness ==
  /\ JobDone /\ TocJob /\ TocLoopExhausted
  /\ NumInputs = 2
  /\ tocLog[2].count = 1
  /\ getPageCount(tocPdfBuffer) = 2
  /\ pageCounts = <<2, 1>>
  /\ EmittedToc(FinalDocument) = <<2, 4>>
  /\ PositionOf(FinalDocument, 1, 1) = 3
  /\ PositionOf(FinalDocument, 2, 1) = 5

(* ------------------------------- C30 ----------------------------------- *)
\* the TOC computation of the running job is about to start
TocComputationStarts == pc = "tocxsl" /\ iter = 0

\* C30: a completed job of n inputs has called the renderer n times when no
\* TOC is requested, and n + 1 to n + 3 times when one is, every call having
\* returned; it has run the stylesheet transform once for each TOC render
\* and never without a TOC; and when the TOC computation starts, pdfBuffers
\* and pageCounts have n entries, entry i being the buffer rendered for
\* input i and the number of its pages.
C30_RenderAndTransformCounts ==
  /\ JobDone =>
       /\ CountOf("render") = NumInputs
       /\ Len(rendered) = RendersReturned
       /\ CountOf("tocxsl") = CountOf("tocrender")
       /\ IF TocJob
          THEN /\ CountOf("tocrender") \in 1..TocIterations
               /\ Len(rendered) \in (NumInputs + 1)..(NumInputs + 3)
          ELSE /\ CountOf("tocxsl") = 0
               /\ Len(rendered) = NumInputs
  /\ TocComputationStarts =>
       /\ TocJob
       /\ Len(pdfBuffers) = NumInputs
       /\ Len(pageCounts) = NumInputs
       /\ \A i \in 1..NumInputs :
            /\ pageCounts[i] \in 1..MaxPages
            /\ pdfBuffers[i] = RenderedInput(i, pageCounts[i])

C30_Witness ==
  /\ JobDone /\ TocJob
  /\ NumInputs = 2
  /\ Len(rendered) = 5
  /\ CountOf("tocxsl") = 3
  /\ pdfBuffers = <<RenderedInput(1, 1), RenderedInput(2, 2)>>
  /\ pageCounts = <<1, 2>>

====
